---- MODULE Spec2Model ----
(***************************************************************************)
(* ChatMosaic backend (src/Backend/server.js): the enhanced server and the *)
(* earlier server, their Response collection and their request handlers.   *)
(*                                                                         *)
(* A handler is a sequence of steps separated by its awaits.  A handler    *)
(* with a single store call is one step (the store call decides the        *)
(* response); POST /api/chat, GET /api/chat and GET /api/search have       *)
(* several awaits and occupy a slot of reqs between them, so the steps of  *)
(* different requests interleave.                                          *)
(***************************************************************************)
EXTENDS Integers, Sequences, FiniteSets, TLC

VARIABLES
    version,      \* which server file runs: "enhanced" (1-934) or "earlier" (936-1236)
    now,          \* Date.now(), in milliseconds
    store,        \* the Response collection, in insertion order
    reqs,         \* the requests that are between two awaits, by slot
    out,          \* the response being sent, with the request it answers
    justDeleted,  \* history: the id a DELETE has removed, while no handler
                  \* has taken a step since that DELETE (<<>> otherwise)
    hits,         \* apiLimiter: the requests counted in the current window
    db,           \* the mongoose connection and the connectDB calls under way
    proc,         \* the process: its HTTP server, its close callbacks, its exit
    ui            \* the browser client: its React state and its pending calls

vars == <<version, now, store, reqs, out, justDeleted, hits, db, proc, ui>>

\* What the specifications of the request handlers leave alone
others == <<hits, db, proc, ui>>

----------------------------------------------------------------------------
(* Bounds of the model *)

MaxStore == 2
MaxClock == 1
MaxCalls == 3
MaxInflight == 3
MaxShown == 2
MaxSignals == 4
MaxFailures == 3
MaxOutages == 3

\* process.env.NODE_ENV === "production"
Production == FALSE

\* Program constants
ReconnectDelay == 5000
AnalyticsLimit == 5
MaxRequests == 100
MaxQuestion == 5000
MaxLimit == 50
DefaultLimit == 10

Slots == {1, 2}
Rnds == {1, 2}

----------------------------------------------------------------------------
(* Texts.  A string is a sequence of runs [c, n]: the character c repeated *)
(* n times, so that a 5000-character question is one run.                  *)

Run(c, n) == [c |-> c, n |-> n]

RECURSIVE TLen(_)
TLen(t) == IF t = <<>> THEN 0 ELSE t[1].n + TLen(Tail(t))

RECURSIVE TrimStart(_)
TrimStart(t) ==
    IF t = <<>> THEN <<>>
    ELSE IF t[1].c = " " THEN TrimStart(Tail(t)) ELSE t

RECURSIVE TrimEnd(_)
TrimEnd(t) ==
    IF t = <<>> THEN <<>>
    ELSE IF t[Len(t)].c = " " THEN TrimEnd(SubSeq(t, 1, Len(t) - 1)) ELSE t

\* String.prototype.trim
Trim(t) == TrimEnd(TrimStart(t))

----------------------------------------------------------------------------
(* JSON values of a request body and values of a query string *)

\* t is the JavaScript type; n the value of a number (1/0 for true/false),
\* s the text of a string, a the elements of an array of strings.
Undef == [t |-> "undefined", n |-> 0, s |-> <<>>, a |-> <<>>]
Null == [t |-> "null", n |-> 0, s |-> <<>>, a |-> <<>>]
Num(k) == [t |-> "number", n |-> k, s |-> <<>>, a |-> <<>>]
NaN == [t |-> "NaN", n |-> 0, s |-> <<>>, a |-> <<>>]
Bool(b) == [t |-> "boolean", n |-> IF b THEN 1 ELSE 0, s |-> <<>>, a |-> <<>>]
Obj == [t |-> "object", n |-> 0, s |-> <<>>, a |-> <<>>]
Arr(x) == [t |-> "array", n |-> 0, s |-> <<>>, a |-> x]
Str(x) == [t |-> "string", n |-> 0, s |-> x, a |-> <<>>]

\* !x
Falsy(x) ==
    \/ x.t \in {"undefined", "null", "NaN"}
    \/ x.t = "number" /\ x.n = 0
    \/ x.t = "boolean" /\ x.n = 0
    \/ x.t = "string" /\ x.s = <<>>

----------------------------------------------------------------------------
(* Errors.  The catch blocks look at name, code and at what the message     *)
(* includes; has is the set of the substrings they test that it includes.  *)

Err(name, code, message, has) ==
    [name |-> name, code |-> code, message |-> message, has |-> has]

\* What validateAndSanitizeInput throws: the three messages start "Question".
QuestionError == Err("Error", "", "Question ...", {"Question"})
\* TypeError of the earlier server: "question.trim is not a function"
TrimTypeError == Err("TypeError", "", "question.trim is not a function", {})
\* TypeError of generateAIResponse for preferences of null
PreferencesTypeError ==
    Err("TypeError", "", "Cannot read properties of null", {})
\* mongoose: "Response validation failed: answer: Path `answer` is required."
RequiredError == Err("ValidationError", "", "Response validation failed", {})
\* MongoServerError E11000 duplicate key error (unique index on id)
DuplicateKeyError ==
    Err("MongoServerError", "11000", "E11000 duplicate key error", {})

\* What the AI provider may throw
AiErrors ==
    { Err("Error", "RESOURCE_EXHAUSTED", "resource exhausted", {}),
      Err("GoogleGenerativeAIFetchError", "", "quota exceeded", {"quota"}),
      Err("Error", "ENOTFOUND", "getaddrinfo ENOTFOUND", {}),
      Err("GoogleGenerativeAIError", "", "blocked", {}),
      Err("GoogleGenerativeAIError", "", "Question blocked", {"Question"}) }

\* What a store call may throw when the store cannot serve it
StoreErrors ==
    { Err("MongoNetworkError", "", "connection closed", {}),
      Err("MongoNetworkError", "ECONNREFUSED", "connect ECONNREFUSED", {}) }

----------------------------------------------------------------------------
(* validateAndSanitizeInput: [ok, val] with val the trimmed question *)

\* A validation that measures the question without its length check
validateNoLength(question) ==
    IF Falsy(question) \/ question.t # "string"
    THEN [ok |-> FALSE, val |-> <<>>]
    ELSE IF TLen(Trim(question.s)) = 0
    THEN [ok |-> FALSE, val |-> <<>>]
    ELSE [ok |-> TRUE, val |-> Trim(question.s)]

validateAndSanitizeInput(question) ==
    IF Falsy(question) \/ question.t # "string"
    THEN [ok |-> FALSE, val |-> <<>>]
    ELSE IF TLen(Trim(question.s)) = 0
    THEN [ok |-> FALSE, val |-> <<>>]
    ELSE IF TLen(Trim(question.s)) > MaxQuestion
    THEN [ok |-> FALSE, val |-> <<>>]
    ELSE [ok |-> TRUE, val |-> Trim(question.s)]

\* formatResponse of the enhanced server: the sanitized rendering of the
\* markdown inside a wrapper div, never empty
formatResponse(text) == [wrap |-> TRUE, md |-> text]
\* formatResponse of the earlier server: marked.parse(text), empty for ""
formatResponseEarlier(text) == [wrap |-> FALSE, md |-> text]

HtmlEmpty(f) == ~f.wrap /\ f.md = <<>>

----------------------------------------------------------------------------
(* The Response documents and the store calls *)

UserAgents == {"Mozilla"}
\* req.ip: an IPv4 address behind its IPv6 prefix
Ips == {[prefix |-> "::ffff:", addr |-> "10.0.0.1"]}

\* new Response({...}) of the enhanced server; a field that is not set is <<>>
NewResponse(ts, rnd, q, text, ua, ip) ==
    [ id |-> <<ts, rnd>>,
      question |-> Trim(q),
      answer |-> text,
      formattedAnswer |-> formatResponse(text),
      metadata |-> << [ questionLength |-> TLen(q),
                        responseLength |-> TLen(text),
                        userAgent |-> ua,
                        ipAddress |-> ip.addr ] >>,
      tags |-> <<>>,
      rating |-> <<>>,
      isStarred |-> FALSE,
      timestamp |-> ts ]

\* new Response({...}) of the earlier server
NewResponseEarlier(ts, q, text) ==
    [ id |-> <<ts>>,
      question |-> q,
      answer |-> text,
      formattedAnswer |-> formatResponseEarlier(text),
      metadata |-> <<>>,
      tags |-> <<>>,
      rating |-> <<>>,
      isStarred |-> FALSE,
      timestamp |-> ts ]

HasId(st, id) == \E i \in DOMAIN st : st[i].id = id
Matching(st, id) == SelectSeq(st, LAMBDA d : d.id = id)
\* the position of the first document with this id (0 when there is none)
FirstIndex(st, id) ==
    IF HasId(st, id)
    THEN CHOOSE i \in DOMAIN st :
           st[i].id = id /\ \A j \in 1..(i - 1) : st[j].id # id
    ELSE 0
RemoveAt(st, i) == SubSeq(st, 1, i - 1) \o SubSeq(st, i + 1, Len(st))

\* Validators that do not require the answer
SchemaAnswerOptional(doc) ==
    \/ doc.id = <<>>
    \/ doc.question = <<>>
    \/ TLen(doc.question) > MaxQuestion
    \/ doc.rating # <<>> /\ ~(doc.rating[1] >= 1 /\ doc.rating[1] <= 5)

\* The validators of ResponseSchema that document.save() runs
SchemaInvalid(doc) ==
    \/ doc.id = <<>>
    \/ doc.question = <<>>
    \/ TLen(doc.question) > MaxQuestion
    \/ doc.answer = <<>>
    \/ HtmlEmpty(doc.formattedAnswer)
    \/ doc.rating # <<>> /\ ~(doc.rating[1] >= 1 /\ doc.rating[1] <= 5)

\* The validators of the earlier ResponseSchema
SchemaInvalidEarlier(doc) ==
    \/ doc.id = <<>>
    \/ doc.question = <<>>
    \/ doc.answer = <<>>
    \/ HtmlEmpty(doc.formattedAnswer)

\* .select("-metadata.userAgent -metadata.ipAddress")
Select(doc) ==
    [doc EXCEPT !.metadata =
        IF doc.metadata = <<>> THEN <<>>
        ELSE << [ questionLength |-> doc.metadata[1].questionLength,
                  responseLength |-> doc.metadata[1].responseLength ] >>]

----------------------------------------------------------------------------
(* Requests and responses *)

\* The results of the three queries of GET /api/analytics, none yet
NoParts == [summary |-> <<>>, recentActivity |-> <<>>, topRated |-> <<>>]

Idle == [kind |-> "none", pc |-> "idle", arg |-> [none |-> TRUE],
         doc |-> <<>>, found |-> <<>>, calls |-> {}, parts |-> NoParts]

NoOut == [kind |-> "none", arg |-> [none |-> TRUE],
          status |-> 0, body |-> [none |-> TRUE]]

\* No response is on its way out: a step of a handler starts from here, so
\* that every response is seen alone, with the state it was sent in
Quiet == out = NoOut

Posting(st) == Cardinality({s \in Slots : st[s].kind = "post"})

\* res.status(status).json(body), as the answer to a request of this kind
Respond(kind, arg, status, body) ==
    out' = [kind |-> kind, arg |-> arg, status |-> status, body |-> body]

\* The catch block of POST /api/chat in the enhanced server
PostCatch(error) ==
    IF "Question" \in error.has
    THEN [status |-> 400, code |-> "VALIDATION_ERROR"]
    ELSE IF error.code = "RESOURCE_EXHAUSTED" \/ "quota" \in error.has
    THEN [status |-> 429, code |-> "QUOTA_EXCEEDED"]
    ELSE IF error.name = "ValidationError"
    THEN [status |-> 400, code |-> "VALIDATION_ERROR"]
    ELSE IF error.code = "ENOTFOUND" \/ error.code = "ECONNREFUSED"
    THEN [status |-> 503, code |-> "SERVICE_UNAVAILABLE"]
    ELSE [status |-> 500, code |-> "INTERNAL_ERROR"]

\* Lines 581-588; details is error.message unless NODE_ENV is production
PostError(arg, error) ==
    Respond("post", arg, PostCatch(error).status,
            [error |-> TRUE, code |-> PostCatch(error).code,
             details |-> IF Production THEN "" ELSE error.message])

\* The catch block of POST /api/chat in the earlier server
PostCatchEarlier(error) ==
    IF error.code = "RESOURCE_EXHAUSTED" THEN 429 ELSE 500

----------------------------------------------------------------------------
(* Inputs *)

Spaces(n) == Run(" ", n)
Word(c, n) == Run(c, n)

QuestionInputs ==
    { Undef, Null, Num(0), Num(7), Obj,
      Str(<<>>),
      Str(<<Spaces(2)>>),
      Str(<<Spaces(1), Word("a", MaxQuestion), Spaces(1)>>),
      Str(<<Word("a", MaxQuestion + 1)>>),
      Str(<<Spaces(1), Word("a", MaxQuestion + 1)>>) }

\* What response.text() may be
AiTexts == { <<>>, <<Word("b", 1)>> }

----------------------------------------------------------------------------
(* POST /api/chat, enhanced server *)

\* Lines 494-506: validation, up to the call of generateAIResponse, for a
\* body with a question and with preferences (undefined when left out)
PostChatBody(s, Questions, Preferences) ==
    /\ Quiet
    /\ version = "enhanced"
    /\ reqs[s].pc = "idle"
    /\ Len(store) + Posting(reqs) < MaxStore
    /\ \E question \in Questions, preferences \in Preferences,
          ua \in UserAgents, ip \in Ips :
         LET arg == [question |-> question, preferences |-> preferences,
                     userAgent |-> ua, ip |-> ip]
         IN IF validateAndSanitizeInput(question).ok
            THEN /\ reqs' = [reqs EXCEPT ![s] =
                              [Idle EXCEPT !.kind = "post", !.pc = "ai",
                                           !.arg = arg]]
                 /\ UNCHANGED out
            ELSE /\ PostError(arg, QuestionError)
                 /\ UNCHANGED reqs
    /\ justDeleted' = <<>>
    /\ UNCHANGED <<version, now, store>>
    /\ UNCHANGED others

\* The same for a body that leaves the preferences out
PostChat(s, Questions) == PostChatBody(s, Questions, {Undef})

\* Lines 325-336: generateAIResponse(question, context, userPreferences = {})
\* reads userPreferences.temperature; the default stands in for undefined
\* only, so preferences of null make it throw before the provider is called
GenerateErrors(preferences) ==
    IF preferences = Null THEN {PreferencesTypeError} ELSE AiErrors

\* Lines 508-537: generateAIResponse returns or throws; on a text the
\* document is built and save() is called
PostChatAI(s, Texts) ==
    /\ Quiet
    /\ version = "enhanced"
    /\ reqs[s].kind = "post" /\ reqs[s].pc = "ai"
    /\ \/ \E text \in Texts, rnd \in Rnds :
            /\ reqs[s].arg.preferences # Null
            /\ reqs' = [reqs EXCEPT ![s].pc = "save",
                                    ![s].doc =
                 << NewResponse(now, rnd,
                                validateAndSanitizeInput(reqs[s].arg.question).val,
                                text, reqs[s].arg.userAgent, reqs[s].arg.ip) >>]
            /\ UNCHANGED out
       \/ \E error \in GenerateErrors(reqs[s].arg.preferences) :
            /\ PostError(reqs[s].arg, error)
            /\ reqs' = [reqs EXCEPT ![s] = Idle]
    /\ justDeleted' = <<>>
    /\ UNCHANGED <<version, now, store>>
    /\ UNCHANGED others

\* A save() that writes the document before it validates it
SaveBeforeValidate(st, doc) ==
    IF SchemaInvalid(doc)
    THEN [error |-> <<RequiredError>>, store |-> Append(st, doc)]
    ELSE IF HasId(st, doc.id) THEN [error |-> <<DuplicateKeyError>>, store |-> st]
    ELSE [error |-> <<>>, store |-> Append(st, doc)]

\* A save() that reports success and writes nothing
SaveLost(st, doc) == [error |-> <<>>, store |-> st]

\* What newResponse.save() does to the collection: <<>> and the new
\* collection, or the error it throws and the collection as it was
Save(st, doc) ==
    IF SchemaInvalid(doc) THEN [error |-> <<RequiredError>>, store |-> st]
    ELSE IF HasId(st, doc.id) THEN [error |-> <<DuplicateKeyError>>, store |-> st]
    ELSE [error |-> <<>>, store |-> Append(st, doc)]

\* Lines 537-551: save() returns or throws, and the response is sent
PostChatSave(s) ==
    /\ Quiet
    /\ version = "enhanced"
    /\ reqs[s].kind = "post" /\ reqs[s].pc = "save"
    /\ LET doc == reqs[s].doc[1]
           saved == Save(store, doc)
       IN \/ /\ saved.error = <<>>
             /\ store' = saved.store
             /\ justDeleted' = <<>>
             /\ Respond("post", reqs[s].arg, 200,
                        [ id |-> doc.id, answer |-> doc.answer,
                          formattedAnswer |-> doc.formattedAnswer,
                          timestamp |-> doc.timestamp,
                          metadata |->
                            [ questionLength |-> doc.metadata[1].questionLength,
                              responseLength |-> doc.metadata[1].responseLength ] ])
          \/ /\ saved.error # <<>>
             /\ PostError(reqs[s].arg, saved.error[1])
             /\ store' = saved.store /\ justDeleted' = <<>>
          \/ \E error \in StoreErrors :
             /\ PostError(reqs[s].arg, error)
             /\ UNCHANGED store /\ justDeleted' = <<>>
    /\ reqs' = [reqs EXCEPT ![s] = Idle]
    /\ UNCHANGED <<version, now>>
    /\ UNCHANGED others

----------------------------------------------------------------------------
(* POST /api/chat, earlier server *)

\* Lines 1105-1115.  trim of a value that is no string throws outside the
\* try block: the request is left without a response (status 0).
PostChatEarlier(s, Questions) ==
    /\ Quiet
    /\ version = "earlier"
    /\ reqs[s].pc = "idle"
    /\ Len(store) + Posting(reqs) < MaxStore
    /\ \E question \in Questions :
         LET arg == [question |-> question]
         IN IF Falsy(question)
            THEN /\ Respond("post", arg, 400, [error |-> TRUE])
                 /\ UNCHANGED reqs
            ELSE IF question.t # "string"
            THEN /\ Respond("post", arg, 0, [none |-> TRUE])
                 /\ UNCHANGED reqs
            ELSE IF TLen(Trim(question.s)) = 0
            THEN /\ Respond("post", arg, 400, [error |-> TRUE])
                 /\ UNCHANGED reqs
            ELSE /\ reqs' = [reqs EXCEPT ![s] =
                              [Idle EXCEPT !.kind = "post", !.pc = "ai",
                                           !.arg = arg]]
                 /\ UNCHANGED out
    /\ justDeleted' = <<>>
    /\ UNCHANGED <<version, now, store>>
    /\ UNCHANGED others

\* Lines 1115-1128
PostChatEarlierAI(s, Texts) ==
    /\ Quiet
    /\ version = "earlier"
    /\ reqs[s].kind = "post" /\ reqs[s].pc = "ai"
    /\ \/ \E text \in Texts :
            /\ reqs' = [reqs EXCEPT ![s].pc = "save",
                                    ![s].doc =
                 << NewResponseEarlier(now, reqs[s].arg.question.s, text) >>]
            /\ UNCHANGED out
       \/ \E error \in AiErrors :
            /\ Respond("post", reqs[s].arg, PostCatchEarlier(error),
                       [error |-> TRUE])
            /\ reqs' = [reqs EXCEPT ![s] = Idle]
    /\ justDeleted' = <<>>
    /\ UNCHANGED <<version, now, store>>
    /\ UNCHANGED others

\* save() of the earlier server: the id has no unique index
SaveEarlier(st, doc) ==
    IF SchemaInvalidEarlier(doc) THEN [error |-> <<RequiredError>>, store |-> st]
    ELSE [error |-> <<>>, store |-> Append(st, doc)]

\* Lines 1128-1151
PostChatEarlierSave(s) ==
    /\ Quiet
    /\ version = "earlier"
    /\ reqs[s].kind = "post" /\ reqs[s].pc = "save"
    /\ LET doc == reqs[s].doc[1]
           saved == SaveEarlier(store, doc)
       IN \/ /\ saved.error = <<>>
             /\ store' = saved.store
             /\ justDeleted' = <<>>
             /\ Respond("post", reqs[s].arg, 200,
                        [ id |-> doc.id, answer |-> doc.answer,
                          formattedAnswer |-> doc.formattedAnswer,
                          timestamp |-> doc.timestamp ])
          \/ /\ saved.error # <<>>
             /\ Respond("post", reqs[s].arg, PostCatchEarlier(saved.error[1]),
                        [error |-> TRUE])
             /\ store' = saved.store /\ justDeleted' = <<>>
          \/ \E error \in StoreErrors :
             /\ Respond("post", reqs[s].arg, PostCatchEarlier(error),
                        [error |-> TRUE])
             /\ UNCHANGED store /\ justDeleted' = <<>>
    /\ reqs' = [reqs EXCEPT ![s] = Idle]
    /\ UNCHANGED <<version, now>>
    /\ UNCHANGED others

----------------------------------------------------------------------------
(* GET /api/chat/:id, PUT /api/chat/:id, DELETE /api/chat/:id: one store *)
(* call each                                                             *)

\* The ids a client may name: those the server generates
IdInputs ==
    IF version = "enhanced"
    THEN {<<t, r>> : t \in 0..MaxClock, r \in Rnds}
    ELSE {<<t>> : t \in 0..MaxClock}

\* Lines 651-675
GetChatById(Wanted) ==
    /\ Quiet
    /\ version = "enhanced"
    /\ \E id \in Wanted :
         LET arg == [id |-> id]
         IN \/ IF HasId(store, id)
               THEN Respond("get", arg, 200, Select(store[FirstIndex(store, id)]))
               ELSE Respond("get", arg, 404,
                            [error |-> TRUE, code |-> "NOT_FOUND"])
            \/ \E error \in StoreErrors :
                 Respond("get", arg, 500, [error |-> TRUE, code |-> "FETCH_ERROR"])
    /\ justDeleted' = <<>>
    /\ UNCHANGED <<version, now, store, reqs>>
    /\ UNCHANGED others

\* An update that coerces isStarred instead of testing its type
UpdateDataCoerced(body) ==
    [ isStarred |-> <<~Falsy(body.isStarred)>>,
      rating |-> IF /\ ~Falsy(body.rating)
                    /\ body.rating.t = "number"
                    /\ body.rating.n >= 1
                    /\ body.rating.n <= 5
                 THEN <<body.rating.n>> ELSE <<>>,
      tags |-> IF body.tags.t = "array" THEN <<body.tags.a>> ELSE <<>> ]

\* Lines 680-685: the update built from the body; a field left out is <<>>
UpdateData(body) ==
    [ isStarred |-> IF body.isStarred.t = "boolean"
                    THEN <<body.isStarred.n = 1>> ELSE <<>>,
      rating |-> IF /\ ~Falsy(body.rating)
                    /\ body.rating.t = "number"
                    /\ body.rating.n >= 1
                    /\ body.rating.n <= 5
                 THEN <<body.rating.n>> ELSE <<>>,
      tags |-> IF body.tags.t = "array" THEN <<body.tags.a>> ELSE <<>> ]

\* The document after $set of the update
Patched(doc, upd) ==
    [doc EXCEPT
       !.isStarred = IF upd.isStarred = <<>> THEN @ ELSE upd.isStarred[1],
       !.rating = IF upd.rating = <<>> THEN @ ELSE upd.rating,
       !.tags = IF upd.tags = <<>> THEN @ ELSE upd.tags[1]]

\* runValidators: the validators of the paths the update sets
UpdateInvalid(upd) ==
    upd.rating # <<>> /\ ~(upd.rating[1] >= 1 /\ upd.rating[1] <= 5)

\* An update that sets whatever number the body gives as rating, with no
\* range test and no validators
FindOneAndUpdateRaw(st, id, body) ==
    LET upd == [UpdateData(body) EXCEPT
                  !.rating = IF body.rating.t = "number" /\ ~Falsy(body.rating)
                             THEN <<body.rating.n>> ELSE <<>>]
        i == FirstIndex(st, id)
    IN IF i = 0
       THEN [error |-> <<>>, doc |-> <<>>, store |-> st]
       ELSE [error |-> <<>>, doc |-> <<Patched(st[i], upd)>>,
             store |-> [st EXCEPT ![i] = Patched(st[i], upd)]]

\* Lines 687-691: Response.findOneAndUpdate({id}, updateData,
\* {new: true, runValidators: true}): the error thrown, the document
\* returned (<<>> for null) and the collection afterwards
FindOneAndUpdate(st, id, body) ==
    LET upd == UpdateData(body)
        i == FirstIndex(st, id)
    IN IF UpdateInvalid(upd)
       THEN [error |-> <<RequiredError>>, doc |-> <<>>, store |-> st]
       ELSE IF i = 0
       THEN [error |-> <<>>, doc |-> <<>>, store |-> st]
       ELSE [error |-> <<>>, doc |-> <<Patched(st[i], upd)>>,
             store |-> [st EXCEPT ![i] = Patched(st[i], upd)]]

\* Lines 678-713
PutChat(Wanted, Bodies) ==
    /\ Quiet
    /\ version = "enhanced"
    /\ \E id \in Wanted, body \in Bodies :
         LET arg == [id |-> id, body |-> body]
             upd == FindOneAndUpdate(store, id, body)
         IN \/ /\ upd.error = <<>> /\ upd.doc # <<>>
               /\ store' = upd.store
               /\ Respond("put", arg, 200, [response |-> Select(upd.doc[1])])
            \/ /\ upd.error = <<>> /\ upd.doc = <<>>
               /\ store' = upd.store
               /\ Respond("put", arg, 404, [error |-> TRUE, code |-> "NOT_FOUND"])
            \/ /\ upd.error # <<>>
               /\ store' = upd.store
               /\ Respond("put", arg, 500, [error |-> TRUE, code |-> "UPDATE_ERROR"])
            \/ \E error \in StoreErrors :
               /\ UNCHANGED store
               /\ Respond("put", arg, 500, [error |-> TRUE, code |-> "UPDATE_ERROR"])
    /\ justDeleted' = <<>>
    /\ UNCHANGED <<version, now, reqs>>
    /\ UNCHANGED others

\* A delete that finds the document and empties the collection
FindAndDeleteEvery(st, id) ==
    IF HasId(st, id)
    THEN [doc |-> <<st[FirstIndex(st, id)]>>, store |-> <<>>]
    ELSE [doc |-> <<>>, store |-> st]

\* Response.findOneAndDelete({id}): the first document with the id leaves
FindOneAndDelete(st, id) ==
    IF HasId(st, id)
    THEN [doc |-> <<st[FirstIndex(st, id)]>>, store |-> RemoveAt(st, FirstIndex(st, id))]
    ELSE [doc |-> <<>>, store |-> st]

\* Lines 716-741
DeleteChat(Wanted) ==
    /\ Quiet
    /\ version = "enhanced"
    /\ \E id \in Wanted :
         LET arg == [id |-> id]
             del == FindOneAndDelete(store, id)
         IN \/ /\ del.doc # <<>>
               /\ store' = del.store
               /\ justDeleted' = id
               /\ Respond("delete", arg, 200, [id |-> id])
            \/ /\ del.doc = <<>>
               /\ UNCHANGED store /\ justDeleted' = <<>>
               /\ Respond("delete", arg, 404,
                          [error |-> TRUE, code |-> "NOT_FOUND", id |-> id])
            \/ \E error \in StoreErrors :
               /\ UNCHANGED store /\ justDeleted' = <<>>
               /\ Respond("delete", arg, 500,
                          [error |-> TRUE, code |-> "DELETE_ERROR"])
    /\ UNCHANGED <<version, now, reqs>>
    /\ UNCHANGED others

\* Lines 1155-1174
DeleteChatEarlier(Wanted) ==
    /\ Quiet
    /\ version = "earlier"
    /\ \E id \in Wanted :
         LET arg == [id |-> id]
             del == FindOneAndDelete(store, id)
         IN \/ /\ del.doc # <<>>
               /\ store' = del.store
               /\ justDeleted' = id
               /\ Respond("delete", arg, 200, [id |-> id])
            \/ /\ del.doc = <<>>
               /\ UNCHANGED store /\ justDeleted' = <<>>
               /\ Respond("delete", arg, 404, [error |-> TRUE])
            \/ \E error \in StoreErrors :
               /\ UNCHANGED store /\ justDeleted' = <<>>
               /\ Respond("delete", arg, 500, [error |-> TRUE])
    /\ UNCHANGED <<version, now, reqs>>
    /\ UNCHANGED others

\* The bodies of PUT /api/chat/:id
Body(isStarred, rating, tags, question) ==
    [isStarred |-> isStarred, rating |-> rating, tags |-> tags,
     question |-> question]

PutBodies ==
    { Body(Bool(TRUE), Num(5), Arr(<<"t">>), Undef),
      Body(Str(<<Word("a", 1)>>), Num(6), Str(<<Word("a", 1)>>),
           Str(<<Word("b", 1)>>)),
      Body(Undef, Num(0), Null, Undef) }

----------------------------------------------------------------------------
(* Queries: find().sort().skip().limit() and countDocuments() *)

\* A query-string value is undefined, a numeric string (Num) or another
\* string (Str).  parseInt of it: a number or NaN
parseInt(q) == IF q.t = "number" THEN q ELSE NaN

\* x || d, for a number or NaN x
OrElse(x, d) == IF Falsy(x) THEN d ELSE x.n

\* the truth value of a query-string value: a string is true unless empty
QTruthy(q) == q.t = "number" \/ (q.t = "string" /\ q.s # <<>>)

Min(a, b) == IF a < b THEN a ELSE b

\* Math.ceil(a / b) for a >= 0 and b # 0
Ceil(a, b) ==
    IF b > 0 THEN (a + b - 1) \div b ELSE 0 - (a \div (0 - b))

\* The filter object of GET /api/chat: <<>> for a condition that is not set
Filter(starred, minRating) == [isStarred |-> starred, rating |-> minRating]

\* A document matches the filter; {rating: {$gte: m}} needs a rating
Matches(doc, filter) ==
    /\ filter.isStarred => doc.isStarred
    /\ filter.rating # <<>> =>
         (doc.rating # <<>> /\ doc.rating[1] >= filter.rating[1])

Find(st, filter) == SelectSeq(st, LAMBDA d : Matches(d, filter))

\* countDocuments(filter)
CountDocuments(st, filter) == Len(Find(st, filter))

\* The strings stored as metadata, in the order strings are compared in
Lexical == <<"10.0.0.1", "10.0.0.2", "Mozilla", "curl">>

StringRank(str) == CHOOSE i \in DOMAIN Lexical : Lexical[i] = str

\* The value a document is sorted by, whatever path of the document the
\* query names; a missing field sorts as null, first
SortKey(doc, sortBy) ==
    IF sortBy = "timestamp" THEN doc.timestamp + 1
    ELSE IF sortBy = "rating"
    THEN (IF doc.rating = <<>> THEN 0 ELSE doc.rating[1])
    ELSE IF sortBy = "metadata.ipAddress"
    THEN (IF doc.metadata = <<>> THEN 0
          ELSE StringRank(doc.metadata[1].ipAddress))
    ELSE IF sortBy = "metadata.userAgent"
    THEN (IF doc.metadata = <<>> THEN 0
          ELSE StringRank(doc.metadata[1].userAgent))
    ELSE 0

\* The orders a sort may return the positions S in: ascending by key, the
\* positions with equal keys in any order
RECURSIVE SortedIdx(_, _)
SortedIdx(keys, S) ==
    IF S = {} THEN {<<>>}
    ELSE UNION { { <<i>> \o r : r \in SortedIdx(keys, S \ {i}) } :
                 i \in {j \in S : \A k \in S : keys[j] <= keys[k]} }

\* .sort({[sortBy]: sortOrder}): the sequences the store may return
Sorted(docs, sortBy, sortOrder) ==
    LET keys == [i \in DOMAIN docs |-> sortOrder * SortKey(docs[i], sortBy)]
    IN { [n \in DOMAIN docs |-> docs[idx[n]]] :
           idx \in SortedIdx(keys, DOMAIN docs) }

\* .skip(skip).limit(limit) on a sorted sequence.  limit 0 is no limit; a
\* negative limit is served as its absolute value in a single batch.
SkipLimit(docs, skip, limit) ==
    LET n == IF limit = 0 THEN Len(docs)
             ELSE IF limit < 0 THEN 0 - limit ELSE limit
    IN SubSeq(docs, skip + 1, Min(Len(docs), skip + n))

SelectAll(docs) == [i \in DOMAIN docs |-> Select(docs[i])]

\* A query of GET /api/chat
Query(page, limit, sortBy, sortOrder, starred, minRating) ==
    [page |-> page, limit |-> limit, sortBy |-> sortBy,
     sortOrder |-> sortOrder, starred |-> starred, minRating |-> minRating]

\* Lines 595-612: the parameters read from the query
ListParams(query) ==
    LET page == OrElse(parseInt(query.page), 1)
        limit == Min(OrElse(parseInt(query.limit), DefaultLimit), MaxLimit)
        minRating == IF QTruthy(query.minRating)
                     THEN parseInt(query.minRating) ELSE Null
    IN [ page |-> page,
         limit |-> limit,
         skip |-> (page - 1) * limit,
         sortBy |-> IF query.sortBy = "" THEN "timestamp" ELSE query.sortBy,
         sortOrder |-> IF query.sortOrder = "asc" THEN 1 ELSE 0 - 1,
         starred |-> query.starred = "true",
         minRating |-> minRating,
         filter |-> Filter(query.starred = "true",
                           IF Falsy(minRating) THEN <<>> ELSE <<minRating.n>>) ]

\* The external calls a request is waiting for
Outstanding(r) ==
    IF r.pc = "idle" THEN {}
    ELSE IF r.pc = "all" THEN r.calls
    ELSE {r.pc}

\* A list handler that starts its find and its countDocuments together
GetChatsFindAll(s, Queries) ==
    /\ Quiet
    /\ version = "enhanced"
    /\ reqs[s].pc = "idle"
    /\ \E query \in Queries :
         reqs' = [reqs EXCEPT ![s] =
                   [Idle EXCEPT !.kind = "list", !.pc = "all", !.arg = query,
                                !.calls = {"find", "count"}]]
    /\ justDeleted' = <<>>
    /\ UNCHANGED <<version, now, store, out>>
    /\ UNCHANGED others

\* Lines 614-618: the find of GET /api/chat
GetChatsFind(s, Queries) ==
    /\ Quiet
    /\ version = "enhanced"
    /\ reqs[s].pc = "idle"
    /\ \E query \in Queries :
         LET p == ListParams(query)
         IN \/ /\ p.skip >= 0
               /\ \E docs \in Sorted(Find(store, p.filter), p.sortBy, p.sortOrder) :
                    reqs' = [reqs EXCEPT ![s] =
                      [Idle EXCEPT !.kind = "list", !.pc = "count", !.arg = query,
                         !.found = SelectAll(SkipLimit(docs, p.skip, p.limit))]]
               /\ UNCHANGED out
            \/ /\ \/ p.skip < 0
                  \/ \E error \in StoreErrors : TRUE
               /\ Respond("list", query, 500,
                          [error |-> TRUE, code |-> "FETCH_ERROR"])
               /\ UNCHANGED reqs
    /\ justDeleted' = <<>>
    /\ UNCHANGED <<version, now, store>>
    /\ UNCHANGED others

\* Lines 620-647: countDocuments, and the response
GetChatsCount(s) ==
    /\ Quiet
    /\ version = "enhanced"
    /\ reqs[s].kind = "list" /\ reqs[s].pc = "count"
    /\ LET p == ListParams(reqs[s].arg)
           total == CountDocuments(store, p.filter)
       IN \/ Respond("list", reqs[s].arg, 200,
                     [ responses |-> reqs[s].found,
                       pagination |->
                         [ total |-> total,
                           page |-> p.page,
                           pages |-> Ceil(total, p.limit),
                           hasNext |-> p.page < Ceil(total, p.limit),
                           hasPrev |-> p.page > 1 ] ])
          \/ \E error \in StoreErrors :
               Respond("list", reqs[s].arg, 500,
                       [error |-> TRUE, code |-> "FETCH_ERROR"])
    /\ reqs' = [reqs EXCEPT ![s] = Idle]
    /\ justDeleted' = <<>>
    /\ UNCHANGED <<version, now, store>>
    /\ UNCHANGED others

\* Lines 1179-1186 of the earlier server: no filter, no cap on limit
ListParamsEarlier(query) ==
    LET page == OrElse(parseInt(query.page), 1)
        limit == OrElse(parseInt(query.limit), DefaultLimit)
    IN [page |-> page, limit |-> limit, skip |-> (page - 1) * limit]

GetChatsEarlierFind(s, Queries) ==
    /\ Quiet
    /\ version = "earlier"
    /\ reqs[s].pc = "idle"
    /\ \E query \in Queries :
         LET p == ListParamsEarlier(query)
         IN \/ /\ p.skip >= 0
               /\ \E docs \in Sorted(store, "timestamp", 0 - 1) :
                    reqs' = [reqs EXCEPT ![s] =
                      [Idle EXCEPT !.kind = "list", !.pc = "count", !.arg = query,
                         !.found = SkipLimit(docs, p.skip, p.limit)]]
               /\ UNCHANGED out
            \/ /\ \/ p.skip < 0
                  \/ \E error \in StoreErrors : TRUE
               /\ Respond("list", query, 500, [error |-> TRUE])
               /\ UNCHANGED reqs
    /\ justDeleted' = <<>>
    /\ UNCHANGED <<version, now, store>>
    /\ UNCHANGED others

\* Lines 1188-1204 of the earlier server
GetChatsEarlierCount(s) ==
    /\ Quiet
    /\ version = "earlier"
    /\ reqs[s].kind = "list" /\ reqs[s].pc = "count"
    /\ LET p == ListParamsEarlier(reqs[s].arg)
           total == Len(store)
       IN \/ Respond("list", reqs[s].arg, 200,
                     [ responses |-> reqs[s].found,
                       pagination |->
                         [ total |-> total,
                           page |-> p.page,
                           pages |-> Ceil(total, p.limit) ] ])
          \/ \E error \in StoreErrors :
               Respond("list", reqs[s].arg, 500, [error |-> TRUE])
    /\ reqs' = [reqs EXCEPT ![s] = Idle]
    /\ justDeleted' = <<>>
    /\ UNCHANGED <<version, now, store>>
    /\ UNCHANGED others

----------------------------------------------------------------------------
(* GET /api/search and GET /api/export *)

\* The words of a text: its runs of letters
Words(t) == {t[i] : i \in {j \in DOMAIN t : t[j].c # " "}}

\* How often the words searched occur in a text
Occurrences(t, q) == Cardinality({j \in DOMAIN t : t[j] \in Words(q)})

\* The text index on question (weight 10) and answer (weight 5): the score
\* of a document for the words searched, 0 when it does not match
TextScore(doc, q) ==
    10 * Occurrences(doc.question, q) + 5 * Occurrences(doc.answer, q)

\* find({$text: {$search: q}})
TextFind(st, q) == SelectSeq(st, LAMBDA d : TextScore(d, q) > 0)

\* .sort({score: {$meta: "textScore"}}): by descending score
SortedByScore(docs, q) ==
    LET keys == [i \in DOMAIN docs |-> 0 - TextScore(docs[i], q)]
    IN { [n \in DOMAIN docs |-> docs[idx[n]]] :
           idx \in SortedIdx(keys, DOMAIN docs) }

\* A query of GET /api/search
SearchQuery(q, page, limit) == [q |-> q, page |-> page, limit |-> limit]

\* Lines 746-755; page and limit default to 1 and 10 when undefined
SearchParams(query) ==
    LET page == IF query.page.t = "undefined" THEN Num(1) ELSE parseInt(query.page)
        limit == IF query.limit.t = "undefined" THEN Num(DefaultLimit)
                 ELSE parseInt(query.limit)
    IN [ page |-> page,
         limit |-> limit,
         skip |-> IF page.t = "NaN" \/ limit.t = "NaN" THEN NaN
                  ELSE Num((page.n - 1) * limit.n) ]

\* Lines 744-764: the find of GET /api/search.  skip(NaN), limit(NaN) and
\* a negative skip make the query throw.
SearchFind(s, Queries) ==
    /\ Quiet
    /\ version = "enhanced"
    /\ reqs[s].pc = "idle"
    /\ \E query \in Queries :
         LET p == SearchParams(query)
         IN IF Falsy(query.q) \/ TLen(Trim(query.q.s)) = 0
            THEN /\ Respond("search", query, 400,
                            [error |-> TRUE, code |-> "VALIDATION_ERROR"])
                 /\ UNCHANGED reqs
            ELSE \/ /\ p.skip.t = "number" /\ p.skip.n >= 0
                    /\ \E docs \in SortedByScore(TextFind(store, query.q.s), query.q.s) :
                         reqs' = [reqs EXCEPT ![s] =
                           [Idle EXCEPT !.kind = "search", !.pc = "count",
                              !.arg = query,
                              !.found = SelectAll(SkipLimit(docs, p.skip.n, p.limit.n))]]
                    /\ UNCHANGED out
                 \/ /\ \/ p.skip.t = "NaN"
                       \/ p.skip.t = "number" /\ p.skip.n < 0
                       \/ \E error \in StoreErrors : TRUE
                    /\ Respond("search", query, 500,
                               [error |-> TRUE, code |-> "SEARCH_ERROR"])
                    /\ UNCHANGED reqs
    /\ justDeleted' = <<>>
    /\ UNCHANGED <<version, now, store>>
    /\ UNCHANGED others

\* Lines 766-786: countDocuments, and the response; pages is null when
\* the division is by 0
SearchCount(s) ==
    /\ Quiet
    /\ version = "enhanced"
    /\ reqs[s].kind = "search" /\ reqs[s].pc = "count"
    /\ LET p == SearchParams(reqs[s].arg)
           total == Len(TextFind(store, reqs[s].arg.q.s))
       IN \/ Respond("search", reqs[s].arg, 200,
                     [ results |-> reqs[s].found,
                       pagination |->
                         [ total |-> total,
                           page |-> p.page.n,
                           pages |-> IF p.limit.n = 0 THEN Null
                                     ELSE Num(Ceil(total, p.limit.n)) ] ])
          \/ \E error \in StoreErrors :
               Respond("search", reqs[s].arg, 500,
                       [error |-> TRUE, code |-> "SEARCH_ERROR"])
    /\ reqs' = [reqs EXCEPT ![s] = Idle]
    /\ justDeleted' = <<>>
    /\ UNCHANGED <<version, now, store>>
    /\ UNCHANGED others

\* A row of the CSV export: r.rating || "" and r.isStarred || false
CsvRow(doc) ==
    [ id |-> doc.id, question |-> doc.question, answer |-> doc.answer,
      timestamp |-> doc.timestamp, rating |-> doc.rating,
      isStarred |-> doc.isStarred ]

\* Lines 830-871
Export(Formats) ==
    /\ Quiet
    /\ version = "enhanced"
    /\ \E format \in Formats :
         LET arg == [format |-> format]
         IN \/ \E docs \in Sorted(store, "timestamp", 0 - 1) :
                 IF format = "csv"
                 THEN Respond("export", arg, 200,
                              [csv |-> [i \in DOMAIN docs |-> CsvRow(docs[i])]])
                 ELSE Respond("export", arg, 200, [json |-> SelectAll(docs)])
            \/ \E error \in StoreErrors :
                 Respond("export", arg, 500,
                         [error |-> TRUE, code |-> "EXPORT_ERROR"])
    /\ justDeleted' = <<>>
    /\ UNCHANGED <<version, now, store, reqs>>
    /\ UNCHANGED others

----------------------------------------------------------------------------
(* GET /api/analytics: three queries under one Promise.all *)

AnalyticsCalls == {"summary", "recentActivity", "topRated"}

RECURSIVE SumOver(_, _)
SumOver(f, S) ==
    IF S = {} THEN 0
    ELSE LET i == CHOOSE j \in S : TRUE IN f[i] + SumOver(f, S \ {i})

\* $ne: ["$rating", null] in an aggregation expression: a field that is
\* missing is not null, and neither is a number
NeNull(field) == field = <<>> \/ field[1] \in Int

\* The $group stage: no document for an empty collection; an average is
\* kept as the sum and the number of its values
Summary(st) ==
    IF st = <<>> THEN <<>>
    ELSE << [ totalResponses |-> Len(st),
              avgQuestionLength |->
                [ sum |-> SumOver([i \in DOMAIN st |-> st[i].metadata[1].questionLength],
                                  DOMAIN st),
                  of |-> Len(st) ],
              avgResponseLength |->
                [ sum |-> SumOver([i \in DOMAIN st |-> st[i].metadata[1].responseLength],
                                  DOMAIN st),
                  of |-> Len(st) ],
              starredCount |-> Cardinality({i \in DOMAIN st : st[i].isStarred}),
              ratedCount |-> Cardinality({i \in DOMAIN st : NeNull(st[i].rating)}) ] >>

\* .select("question timestamp processingTime rating")
AnalyticsRow(doc) ==
    [question |-> doc.question, timestamp |-> doc.timestamp, rating |-> doc.rating]

AnalyticsRows(docs) == [i \in DOMAIN docs |-> AnalyticsRow(docs[i])]

\* find().sort({timestamp: -1}).limit(5)
RecentActivity(st) ==
    { AnalyticsRows(SkipLimit(docs, 0, AnalyticsLimit)) :
        docs \in Sorted(st, "timestamp", 0 - 1) }

\* find({rating: {$exists: true}}).sort({rating: -1, timestamp: -1}).limit(5)
TopRated(st) ==
    LET rated == SelectSeq(st, LAMBDA d : d.rating # <<>>)
        span == 2 + SumOver([i \in DOMAIN rated |-> rated[i].timestamp], DOMAIN rated)
        keys == [i \in DOMAIN rated |->
                   0 - (rated[i].rating[1] * span + rated[i].timestamp)]
    IN { AnalyticsRows(SkipLimit([n \in DOMAIN rated |-> rated[idx[n]]],
                                 0, AnalyticsLimit)) :
           idx \in SortedIdx(keys, DOMAIN rated) }

\* What a query of the three may return
AnalyticsResults(call, st) ==
    IF call = "summary" THEN {Summary(st)}
    ELSE IF call = "recentActivity" THEN RecentActivity(st)
    ELSE TopRated(st)

\* Lines 789-813: the three queries are started together
AnalyticsStart(s) ==
    /\ Quiet
    /\ version = "enhanced"
    /\ reqs[s].pc = "idle"
    /\ reqs' = [reqs EXCEPT ![s] =
                 [Idle EXCEPT !.kind = "analytics", !.pc = "all",
                              !.calls = AnalyticsCalls]]
    /\ justDeleted' = <<>>
    /\ UNCHANGED <<version, now, store, out>>
    /\ UNCHANGED others

\* Lines 791-826: one of the queries returns or throws.  Promise.all
\* rejects with the first query that throws; it resolves with the last
\* that returns, and the response is sent.
AnalyticsCall(s) ==
    /\ Quiet
    /\ version = "enhanced"
    /\ reqs[s].kind = "analytics"
    /\ \E call \in reqs[s].calls :
         \/ \E result \in AnalyticsResults(call, store) :
              LET parts == [reqs[s].parts EXCEPT ![call] = result]
              IN IF reqs[s].calls = {call}
                 THEN /\ Respond("analytics", [none |-> TRUE], 200,
                                 [ summary |-> parts.summary,
                                   recentActivity |-> parts.recentActivity,
                                   topRated |-> parts.topRated ])
                      /\ reqs' = [reqs EXCEPT ![s] = Idle]
                 ELSE /\ reqs' = [reqs EXCEPT ![s].calls = @ \ {call},
                                              ![s].parts = parts]
                      /\ UNCHANGED out
         \/ \E error \in StoreErrors :
              /\ Respond("analytics", [none |-> TRUE], 500,
                         [error |-> TRUE, code |-> "ANALYTICS_ERROR"])
              /\ reqs' = [reqs EXCEPT ![s] = Idle]
    /\ justDeleted' = <<>>
    /\ UNCHANGED <<version, now, store>>
    /\ UNCHANGED others

----------------------------------------------------------------------------
(* Time *)

Tick ==
    /\ Quiet
    /\ now < MaxClock
    /\ now' = now + 1
    /\ UNCHANGED <<version, store, reqs, out, justDeleted>>
    /\ UNCHANGED others

\* The response has left
Sent ==
    /\ ~Quiet
    /\ out' = NoOut
    /\ UNCHANGED <<version, now, store, reqs, justDeleted>>
    /\ UNCHANGED others

\* The parts of the server that a specification does not exercise
\* The connection is up for good, no call of connectDB is under way
Connected ==
    [reachable |-> TRUE, state |-> "connected", attempts |-> 0,
     timers |-> <<>>, failures |-> 0, outages |-> 0]

\* Lines 896-901: the process listens, no signal has come
Serving ==
    [http |-> "listening", inflight |-> 0, callbacks |-> <<>>,
     mongo |-> "open", waiting |-> 0, exit |-> <<>>, signals |-> 0]

\* No browser client is open
NoClient ==
    [client |-> "none", responses |-> <<>>, error |-> <<>>,
     isLoading |-> FALSE, asking |-> {}, deleting |-> <<>>]

Standby == hits = 0 /\ db = Connected /\ proc = Serving /\ ui = NoClient

----------------------------------------------------------------------------
(* Spec: the requests that write, in both servers, two at a time, once    *)
(* apiLimiter has let them through                                        *)

Init ==
    /\ version \in {"enhanced", "earlier"}
    /\ now = 0
    /\ store = <<>>
    /\ reqs = [s \in Slots |-> Idle]
    /\ out = NoOut
    /\ justDeleted = <<>>
    /\ Standby

ExportFormats == {"", "csv"}

Next ==
    \/ \E s \in Slots : PostChat(s, QuestionInputs)
    \/ \E s \in Slots : PostChatAI(s, AiTexts)
    \/ \E s \in Slots : PostChatSave(s)
    \/ \E s \in Slots : PostChatEarlier(s, QuestionInputs)
    \/ \E s \in Slots : PostChatEarlierAI(s, AiTexts)
    \/ \E s \in Slots : PostChatEarlierSave(s)
    \/ GetChatById(IdInputs)
    \/ PutChat(IdInputs, PutBodies)
    \/ DeleteChat(IdInputs)
    \/ DeleteChatEarlier(IdInputs)
    \/ Export(ExportFormats)
    \/ Tick
    \/ Sent

Spec == Init /\ [][Next]_vars

----------------------------------------------------------------------------
(* SpecRead: the enhanced server with a list or a search between its two   *)
(* store calls while exchanges are created, updated and deleted            *)

ReadQuestions == { Str(<<Spaces(1), Word("a", 1), Spaces(1)>>) }
ReadTexts == { <<Word("b", 1)>> }
ReadBodies == { Body(Bool(TRUE), Num(5), Arr(<<"t">>), Undef) }

ReadListQueries ==
    { Query(Undef, limit, "", "", starred, Undef) :
        limit \in {Undef, Num(1)}, starred \in {"", "true"} }

ReadSearchQueries ==
    { SearchQuery(Str(<<Word(c, 1)>>), Undef, Undef) : c \in {"a", "c"} }

InitRead ==
    /\ version = "enhanced"
    /\ now = 0
    /\ store = <<>>
    /\ reqs = [s \in Slots |-> Idle]
    /\ out = NoOut
    /\ justDeleted = <<>>
    /\ Standby

NextRead ==
    \/ PostChat(1, ReadQuestions)
    \/ PostChatAI(1, ReadTexts)
    \/ PostChatSave(1)
    \/ GetChatById(IdInputs)
    \/ PutChat(IdInputs, ReadBodies)
    \/ DeleteChat(IdInputs)
    \/ GetChatsFind(2, ReadListQueries)
    \/ GetChatsCount(2)
    \/ SearchFind(2, ReadSearchQueries)
    \/ SearchCount(2)
    \/ AnalyticsStart(2)
    \/ AnalyticsCall(2)
    \/ Export(ExportFormats)
    \/ Sent

SpecRead == InitRead /\ [][NextRead]_vars

----------------------------------------------------------------------------
(* SpecList: GET /api/chat of both servers and GET /api/search over a      *)
(* store that requests have filled before                                  *)

MaxBulk == 51

\* A question of n words "a"
RECURSIVE Repeated(_)
Repeated(n) ==
    IF n = 1 THEN <<Word("a", 1)>>
    ELSE <<Word("a", 1), Spaces(1)>> \o Repeated(n - 1)

Created(ts, rnd, q) ==
    NewResponse(ts, rnd, q, <<Word("b", 1)>>, "Mozilla",
                [prefix |-> "::ffff:", addr |-> "10.0.0.1"])

\* Three exchanges, two of one millisecond; one unrated, one starred
SmallStore ==
    << Created(0, 1, <<Word("a", 1)>>),
       Patched(Created(0, 2, <<Word("c", 1)>>),
               UpdateData(Body(Bool(TRUE), Num(5), Undef, Undef))),
       Patched(Created(1, 1, Repeated(2)),
               UpdateData(Body(Undef, Num(2), Undef, Undef))) >>

SmallStoreEarlier ==
    << NewResponseEarlier(0, <<Word("a", 1)>>, <<Word("b", 1)>>),
       NewResponseEarlier(1, <<Word("a", 1)>>, <<Word("b", 1)>>) >>

\* Two exchanges of two clients
VisitorStore ==
    << NewResponse(0, 1, <<Word("a", 1)>>, <<Word("b", 1)>>, "curl",
                   [prefix |-> "::ffff:", addr |-> "10.0.0.2"]),
       NewResponse(1, 1, <<Word("c", 1)>>, <<Word("b", 1)>>, "Mozilla",
                   [prefix |-> "::ffff:", addr |-> "10.0.0.1"]) >>

\* Seven rated exchanges, one a millisecond, rated 1, 2, 3, 4, 5, 1, 2
RatedStore ==
    [i \in 1..7 |->
       Patched(Created(i, 1, Repeated(i)),
               UpdateData(Body(Bool((i % 2) = 0), Num(1 + ((i - 1) % 5)), Undef, Undef)))]

\* More exchanges than a page may hold, one a millisecond, the i-th with a
\* question of i words
BulkStore == [i \in 1..MaxBulk |-> Created(i, 1, Repeated(i))]
BulkStoreEarlier ==
    [i \in 1..MaxBulk |-> NewResponseEarlier(i, Repeated(i), <<Word("b", 1)>>)]

\* The queries of GET /api/chat sent to a small store
ListQueries ==
    { Query(page, limit, sortBy, sortOrder, starred, minRating) :
        page \in {Undef, Num(1), Num(2)},
        limit \in {Undef, Num(1), Num(2), Num(50)},
        sortBy \in {"", "timestamp", "rating"},
        sortOrder \in {"", "asc", "desc"},
        starred \in {"", "true"},
        minRating \in {Undef, Num(0 - 1), Num(0), Num(2), Num(5)} }
      \cup { Query(Undef, limit, sortBy, sortOrder, "", Undef) :
               limit \in {Undef, Num(1)},
               sortBy \in {"metadata.ipAddress", "metadata.userAgent"},
               sortOrder \in {"", "asc"} }

\* The values of limit sent to a store of more than a page
LimitInputs ==
    { Undef, Num(0), Num(1), Num(MaxLimit), Num(MaxLimit + 1), Num(100),
      Num(0 - 1), Num(0 - 100), Str(<<Word("x", 1)>>) }

PagingQueries ==
    { Query(page, limit, "", sortOrder, "", Undef) :
        page \in {Undef, Num(0), Num(2)},
        limit \in LimitInputs,
        sortOrder \in {"", "asc"} }

\* The queries of GET /api/search sent to a small store
SearchQueries ==
    { SearchQuery(q, page, limit) :
        q \in {Undef, Str(<<Spaces(1)>>), Str(<<Word("a", 1)>>),
               Str(<<Word("b", 1)>>), Str(<<Word("c", 1), Spaces(1), Word("a", 1)>>)},
        page \in {Undef, Num(2), Str(<<Word("x", 1)>>)},
        limit \in {Undef, Num(0), Num(1), Num(0 - 1)} }

SearchPagingQueries ==
    { SearchQuery(Str(<<Word("a", 1)>>), page, limit) :
        page \in {Undef, Num(0), Num(2)}, limit \in LimitInputs }

Small == Len(store) <= 3

InitList ==
    /\ version \in {"enhanced", "earlier"}
    /\ now = 0
    /\ store \in IF version = "enhanced"
                 THEN {<<>>, SmallStore, VisitorStore, RatedStore, BulkStore}
                 ELSE {<<>>, SmallStoreEarlier, BulkStoreEarlier}
    /\ reqs = [s \in Slots |-> Idle]
    /\ out = NoOut
    /\ justDeleted = <<>>
    /\ Standby

NextList ==
    \/ GetChatsFind(1, IF Small THEN ListQueries ELSE PagingQueries)
    \/ GetChatsCount(1)
    \/ GetChatsEarlierFind(1, PagingQueries)
    \/ GetChatsEarlierCount(1)
    \/ SearchFind(1, IF Small THEN SearchQueries ELSE SearchPagingQueries)
    \/ SearchCount(1)
    \/ AnalyticsStart(1)
    \/ AnalyticsCall(1)
    \/ Sent

SpecList == InitList /\ [][NextList]_vars

----------------------------------------------------------------------------
(* SpecGate: the middleware of the enhanced server in front of its routes, *)
(* for the requests of one client address: express.json, apiLimiter, the   *)
(* route of GET /api/health, the 404 fallback and the error middleware.    *)
(* A request that reaches another route goes on to its handler.            *)

\* A URL is the sequence of its path segments
HealthUrl == <<"api", "health">>
RouteUrls == {<<"api", "chat">>, <<"api", "search">>, <<"api", "export">>}
GateUrls ==
    {HealthUrl, <<"api", "api", "health">>, <<"api", "nothing">>, <<"nothing">>}
      \cup RouteUrls

\* app.use("/api/", apiLimiter): the limiter sees the requests under /api/
Mounted(url) == url # <<>> /\ url[1] = "api"
\* req.path inside a middleware mounted at /api/: the mount point is cut off
MountedPath(url) == Tail(url)
\* skip: (req) => req.path === "/api/health"
Skip(url) == MountedPath(url) = <<"api", "health">>

\* The message of apiLimiter
TooManyBody == [error |-> TRUE, retryAfter |-> "15 minutes"]
\* The body of GET /api/health
HealthBody == [status |-> "ok", dbStatus |-> "connected"]
\* The body of the 404 fallback
FallbackBody(url) == [error |-> TRUE, code |-> "NOT_FOUND", path |-> url]
\* The body of the error middleware
MiddlewareErrorBody ==
    [error |-> TRUE, code |-> "INTERNAL_ERROR",
     details |-> IF Production THEN "" ELSE "Unexpected token"]

\* A request arrives.  express.json hands a body it cannot parse to the
\* error middleware; apiLimiter counts the requests under /api/ that it
\* does not skip and answers 429 from the one after the MaxRequests-th on;
\* then the route answers, or the fallback.
Request(Urls) ==
    /\ Quiet
    /\ version = "enhanced"
    /\ \E url \in Urls, malformed \in BOOLEAN :
         LET arg == [url |-> url, malformed |-> malformed]
             counted == ~malformed /\ Mounted(url) /\ ~Skip(url)
             total == IF counted THEN hits + 1 ELSE hits
         IN /\ hits' = IF total > MaxRequests THEN MaxRequests + 1 ELSE total
            /\ IF malformed
               THEN Respond("gate", arg, 500, MiddlewareErrorBody)
               ELSE IF counted /\ total > MaxRequests
               THEN Respond("gate", arg, 429, TooManyBody)
               ELSE IF url = HealthUrl
               THEN Respond("gate", arg, 200, HealthBody)
               ELSE IF url \in RouteUrls
               THEN Respond("next", arg, 0, [none |-> TRUE])
               ELSE Respond("gate", arg, 404, FallbackBody(url))
    /\ UNCHANGED <<version, now, store, reqs, justDeleted>>
    /\ UNCHANGED <<db, proc, ui>>

\* The window of 15 minutes ends
WindowEnds ==
    /\ Quiet
    /\ hits > 0
    /\ hits' = 0
    /\ UNCHANGED <<version, now, store, reqs, out, justDeleted>>
    /\ UNCHANGED <<db, proc, ui>>

InitGate ==
    /\ version = "enhanced"
    /\ now = 0
    /\ store = <<>>
    /\ reqs = [s \in Slots |-> Idle]
    /\ out = NoOut
    /\ justDeleted = <<>>
    /\ hits = 0
    /\ db = Connected
    /\ proc = Serving
    /\ ui = NoClient

NextGate ==
    \/ Request(GateUrls)
    \/ WindowEnds
    \/ Sent

SpecGate == InitGate /\ [][NextGate]_vars

----------------------------------------------------------------------------
(* SpecConn: connectDB, the timers it sets and the disconnected event *)

\* Lines 174-192 with no timer set in the catch block
ConnectEndsNoRetry ==
    /\ db.attempts > 0
    /\ db' = IF db.reachable
             THEN [db EXCEPT !.attempts = @ - 1, !.state = "connected"]
             ELSE [db EXCEPT !.attempts = @ - 1,
                             !.failures = IF @ < MaxFailures THEN @ + 1 ELSE @]
    /\ UNCHANGED <<version, now, store, reqs, out, justDeleted, hits, proc, ui>>

\* Lines 174-192: an await of mongoose.connect ends.  It resolves when the
\* database is reachable; else it rejects (serverSelectionTimeoutMS) and
\* the catch block sets a timer of 5 seconds for connectDB.  The
\* connection that gives up may emit "disconnected" as well, and the
\* listener of lines 197-200 then calls connectDB at once.
ConnectEnds ==
    /\ db.attempts > 0
    /\ \E emitted \in BOOLEAN :
         /\ emitted => ~db.reachable /\ db.attempts + Len(db.timers) < MaxCalls
         /\ db' = IF db.reachable
                  THEN [db EXCEPT !.attempts = @ - 1, !.state = "connected"]
                  ELSE [db EXCEPT
                          !.attempts = IF emitted THEN @ ELSE @ - 1,
                          !.timers = Append(@, ReconnectDelay),
                          !.failures = IF @ < MaxFailures THEN @ + 1 ELSE @]
    /\ UNCHANGED <<version, now, store, reqs, out, justDeleted, hits, proc, ui>>

\* Line 187: a timer set by the catch block fires and calls connectDB
TimerFires ==
    /\ db.timers # <<>>
    /\ db' = [db EXCEPT !.timers = Tail(@), !.attempts = @ + 1]
    /\ UNCHANGED <<version, now, store, reqs, out, justDeleted, hits, proc, ui>>

\* Lines 197-200: the database goes away, the connection emits
\* "disconnected" if it was up, and the listener calls connectDB
Outage ==
    /\ db.reachable
    /\ db.outages < MaxOutages
    /\ db.attempts + Len(db.timers) < MaxCalls
    /\ db' = IF db.state = "connected"
             THEN [db EXCEPT !.reachable = FALSE, !.outages = @ + 1,
                             !.state = "disconnected", !.attempts = @ + 1]
             ELSE [db EXCEPT !.reachable = FALSE, !.outages = @ + 1]
    /\ UNCHANGED <<version, now, store, reqs, out, justDeleted, hits, proc, ui>>

\* Lines 202-204 and 1017-1020: the connection emits "error".  The
\* listener of the enhanced server logs it; the listener of the earlier
\* server calls connectDB as well.
ErrorEvent ==
    /\ db.attempts + Len(db.timers) < MaxCalls
    /\ db' = IF version = "earlier" THEN [db EXCEPT !.attempts = @ + 1] ELSE db
    /\ UNCHANGED <<version, now, store, reqs, out, justDeleted, hits, proc, ui>>

\* The database comes back
Recovery ==
    /\ ~db.reachable
    /\ db' = [db EXCEPT !.reachable = TRUE]
    /\ UNCHANGED <<version, now, store, reqs, out, justDeleted, hits, proc, ui>>

\* Lines 194 and 1009: connectDB() is called once when the module is loaded
InitConn ==
    /\ version \in {"enhanced", "earlier"}
    /\ now = 0
    /\ store = <<>>
    /\ reqs = [s \in Slots |-> Idle]
    /\ out = NoOut
    /\ justDeleted = <<>>
    /\ hits = 0
    /\ db \in { [reachable |-> r, state |-> "disconnected", attempts |-> 1,
                 timers |-> <<>>, failures |-> 0, outages |-> 0] :
               r \in BOOLEAN }
    /\ proc = Serving
    /\ ui = NoClient

NextConn ==
    \/ ConnectEnds
    \/ TimerFires
    \/ Outage
    \/ ErrorEvent
    \/ Recovery

\* Every await of mongoose.connect ends, and every timer fires
SpecConn ==
    /\ InitConn
    /\ [][NextConn]_vars
    /\ WF_vars(ConnectEnds)
    /\ WF_vars(TimerFires)

----------------------------------------------------------------------------
(* SpecExit: the signals, server.close and the end of the process *)

Alive == proc.exit = <<>>

\* A request arrives on the listening server
Arrives ==
    /\ Alive
    /\ proc.http = "listening"
    /\ proc.inflight < MaxInflight
    /\ proc' = [proc EXCEPT !.inflight = @ + 1]
    /\ UNCHANGED <<version, now, store, reqs, out, justDeleted, hits, db, ui>>

\* A request is answered and its connection ends
Finishes ==
    /\ Alive
    /\ proc.inflight > 0
    /\ proc' = [proc EXCEPT !.inflight = @ - 1]
    /\ UNCHANGED <<version, now, store, reqs, out, justDeleted, hits, db, ui>>

\* server.close(callback): the server stops listening; the callback waits
\* for the close event, also when the server is closing or closed already
ServerClose(p, callback) ==
    [p EXCEPT !.http = IF @ = "listening" THEN "closing" ELSE @,
              !.callbacks = Append(@, callback)]

\* mongoose.connection.close(callback), with the callback that exits 0
\* (lines 908-911): called at once when the connection is closed already
MongoClose(p) ==
    IF p.mongo = "closed" THEN [p EXCEPT !.exit = <<0>>]
    ELSE [p EXCEPT !.mongo = "closing", !.waiting = @ + 1]

\* A shutdown that closes the database connection without waiting for the
\* HTTP server
ShutdownAtOnce ==
    /\ Alive
    /\ proc.signals < MaxSignals
    /\ \E signal \in {"SIGTERM", "SIGINT", "UNCAUGHT_EXCEPTION"} :
         proc' = MongoClose([proc EXCEPT !.signals = @ + 1])
    /\ UNCHANGED <<version, now, store, reqs, out, justDeleted, hits, db, ui>>

\* Lines 904-923: gracefulShutdown, on SIGTERM, SIGINT or an uncaught
\* exception
Shutdown ==
    /\ Alive
    /\ proc.signals < MaxSignals
    /\ \E signal \in {"SIGTERM", "SIGINT", "UNCAUGHT_EXCEPTION"} :
         proc' = ServerClose([proc EXCEPT !.signals = @ + 1], "shutdown")
    /\ UNCHANGED <<version, now, store, reqs, out, justDeleted, hits, db, ui>>

\* Lines 926-932: an unhandled rejection
Rejection ==
    /\ Alive
    /\ proc.signals < MaxSignals
    /\ proc' = ServerClose([proc EXCEPT !.signals = @ + 1], "exit1")
    /\ UNCHANGED <<version, now, store, reqs, out, justDeleted, hits, db, ui>>

\* The callbacks of the close event, in the order they were given;
\* process.exit ends the process and the callbacks after it do not run
RECURSIVE RunCallbacks(_, _)
RunCallbacks(p, callbacks) ==
    IF callbacks = <<>> \/ p.exit # <<>> THEN p
    ELSE RunCallbacks(IF Head(callbacks) = "shutdown" THEN MongoClose(p)
                      ELSE [p EXCEPT !.exit = <<1>>],
                      Tail(callbacks))

\* The HTTP server has no connection left and emits close: when the last
\* request of a closing server ends, and again for a server.close that
\* comes after that
HttpClosed ==
    /\ Alive
    /\ proc.inflight = 0
    /\ \/ proc.http = "closing"
       \/ proc.http = "closed" /\ proc.callbacks # <<>>
    /\ proc' = RunCallbacks([proc EXCEPT !.http = "closed", !.callbacks = <<>>],
                            proc.callbacks)
    /\ UNCHANGED <<version, now, store, reqs, out, justDeleted, hits, db, ui>>

\* The database connection has closed: it emits "disconnected", for which
\* the listener of lines 197-200 calls connectDB, and the callbacks
\* waiting for the close run
MongoClosed ==
    /\ Alive
    /\ proc.mongo = "closing"
    /\ proc' = [proc EXCEPT !.mongo = "closed", !.waiting = 0, !.exit = <<0>>]
    /\ db' = [db EXCEPT !.state = "disconnected", !.attempts = @ + 1]
    /\ UNCHANGED <<version, now, store, reqs, out, justDeleted, hits, ui>>

InitExit ==
    /\ version = "enhanced"
    /\ now = 0
    /\ store = <<>>
    /\ reqs = [s \in Slots |-> Idle]
    /\ out = NoOut
    /\ justDeleted = <<>>
    /\ hits = 0
    /\ db = Connected
    /\ proc = Serving
    /\ ui = NoClient

NextExit ==
    \/ Arrives
    \/ Finishes
    \/ Shutdown
    \/ Rejection
    \/ HttpClosed
    \/ MongoClosed

SpecExit == InitExit /\ [][NextExit]_vars

----------------------------------------------------------------------------
(* SpecClient: the browser client, in its two versions (the component     *)
(* mainContainer.jsx and the client of server.js 1237-1563), with the     *)
(* server it posts to                                                     *)

Server == <<version, now, store, reqs, out, justDeleted, hits, db, proc>>

\* What the user may have typed
ClientValues == { <<Spaces(1)>>, <<Word("a", 1)>>, <<Word("c", 1)>> }

\* handleAsk up to the await of axios.post, called by the Send button,
\* which is disabled while isLoading (and, in the client of server.js,
\* while the input is blank), or by the Enter key in the input, which is
\* not.  The call keeps the responses of the render it was made in.  The
\* asks that wait for their response at one time have different texts.
AskClicked ==
    /\ ui.client # "none"
    /\ Len(ui.responses) + Cardinality(ui.asking) < MaxShown
    /\ \E value \in ClientValues, key \in {"button", "enter"} :
         /\ key = "button" =>
              /\ ~ui.isLoading
              /\ ui.client = "embedded" => TLen(Trim(value)) # 0
         /\ \A ask \in ui.asking : ask.value # value
         /\ IF TLen(Trim(value)) = 0
            THEN ui' = [ui EXCEPT !.error = <<"Please enter a question.">>]
            ELSE ui' = [ui EXCEPT
                          !.isLoading = TRUE,
                          !.asking = @ \cup {[value |-> value,
                                              responses |-> ui.responses]}]
    /\ UNCHANGED Server

\* The questions of the POST /api/chat requests that the client has sent
\* and the server has not taken in yet
Asked ==
    {Str(ask.value) : ask \in ui.asking}
      \ {reqs[s].arg.question : s \in {t \in Slots : reqs[t].kind = "post"}}

\* handleDelete up to the await of axios.delete, for the n-th exchange
\* displayed
DeleteClicked ==
    /\ ui.client # "none"
    /\ ui.deleting = <<>>
    /\ \E n \in DOMAIN ui.responses :
         ui' = [ui EXCEPT !.deleting =
                  <<[id |-> ui.responses[n].id, responses |-> ui.responses]>>]
    /\ UNCHANGED Server

\* The id of the DELETE /api/chat/:id that the client has sent
Deleted == IF ui.deleting = <<>> THEN {} ELSE {ui.deleting[1].id}

\* handleClear
ClearClicked ==
    /\ ui.client # "none"
    /\ ui.error # <<>>
    /\ ui' = [ui EXCEPT !.error = <<>>]
    /\ UNCHANGED Server

\* newResponse of handleAsk: the component takes Date.now() of the browser
\* as the id (mainContainer.jsx 35-39), the client of server.js takes
\* response.data.id (1353-1357)
NewShown(client, body, value, t) ==
    [ id |-> IF client = "component" THEN <<t>> ELSE body.id,
      question |-> value,
      answer |-> body.answer ]

\* The rest of handleAsk and of handleDelete: axios resolves for a status
\* of 2xx and throws for any other
ClientReceives ==
    /\ ~Quiet
    /\ ui.client # "none"
    /\ out' = NoOut
    /\ \/ /\ out.kind = "post"
          /\ \E t \in 0..MaxClock :
               LET ask == CHOOSE a \in ui.asking : Str(a.value) = out.arg.question
               IN ui' = IF out.status = 200
                        THEN [ui EXCEPT
                                !.responses =
                                  Append(ask.responses,
                                         NewShown(ui.client, out.body,
                                                  ask.value, t)),
                                !.isLoading = FALSE,
                                !.asking = @ \ {ask}]
                        ELSE [ui EXCEPT
                                !.error = <<"Failed to get response.">>,
                                !.isLoading = FALSE,
                                !.asking = @ \ {ask}]
       \/ /\ out.kind = "delete"
          /\ ui' = IF out.status = 200
                   THEN [ui EXCEPT
                           !.responses =
                             SelectSeq(ui.deleting[1].responses,
                                       LAMBDA r : r.id # ui.deleting[1].id),
                           !.deleting = <<>>]
                   ELSE [ui EXCEPT
                           !.error = <<"Failed to delete response. Please try again.">>,
                           !.deleting = <<>>]
    /\ UNCHANGED <<version, now, store, reqs, justDeleted, hits, db, proc>>

ClientTexts == { <<Word("b", 1)>> }

InitClient ==
    /\ version \in {"enhanced", "earlier"}
    /\ now = 0
    /\ store = <<>>
    /\ reqs = [s \in Slots |-> Idle]
    /\ out = NoOut
    /\ justDeleted = <<>>
    /\ hits = 0
    /\ db = Connected
    /\ proc = Serving
    /\ ui \in { [NoClient EXCEPT !.client = c] : c \in {"component", "embedded"} }

NextClient ==
    \/ AskClicked
    \/ DeleteClicked
    \/ ClearClicked
    \/ ClientReceives
    \/ \E s \in Slots : PostChat(s, Asked)
    \/ \E s \in Slots : PostChatAI(s, ClientTexts)
    \/ \E s \in Slots : PostChatSave(s)
    \/ \E s \in Slots : PostChatEarlier(s, Asked)
    \/ \E s \in Slots : PostChatEarlierAI(s, ClientTexts)
    \/ \E s \in Slots : PostChatEarlierSave(s)
    \/ DeleteChat(Deleted)
    \/ DeleteChatEarlier(Deleted)
    \/ Tick

SpecClient == InitClient /\ [][NextClient]_vars

----------------------------------------------------------------------------
(* SpecPost: POST /api/chat of both servers for every kind of body, with  *)
(* every callback that is ready run in the end                            *)

PostQuestions ==
    { Undef, Null, Num(7), Obj, Str(<<>>), Str(<<Word("a", 1)>>) }

PostPreferences == { Undef, Null }

NextPost ==
    \/ \E s \in Slots : PostChatBody(s, PostQuestions, PostPreferences)
    \/ \E s \in Slots : PostChatAI(s, AiTexts)
    \/ \E s \in Slots : PostChatSave(s)
    \/ \E s \in Slots : PostChatEarlier(s, PostQuestions)
    \/ \E s \in Slots : PostChatEarlierAI(s, AiTexts)
    \/ \E s \in Slots : PostChatEarlierSave(s)
    \/ Tick
    \/ Sent

\* The AI call and the save of a request end, and a response that is
\* written is sent, however many other requests arrive meanwhile
SpecPost ==
    /\ Init
    /\ [][NextPost]_vars
    /\ \A s \in Slots :
         /\ SF_vars(PostChatAI(s, AiTexts))
         /\ SF_vars(PostChatSave(s))
         /\ SF_vars(PostChatEarlierAI(s, AiTexts))
         /\ SF_vars(PostChatEarlierSave(s))
    /\ WF_vars(Sent)

----------------------------------------------------------------------------
(* Properties.  A response step is a step that sets out: out' is the       *)
(* response, with the request it answers, store the collection before the  *)
(* step and store' the collection after it.  A property about what a       *)
(* handler answers is about the requests the store serves: a store call    *)
(* that throws is answered 500 by every handler, and changes nothing.      *)

Responds(kind) == out = NoOut /\ out' # NoOut /\ out'.kind = kind

\* The stored documents with this id, before and after the step
Doc(st, id) == st[FirstIndex(st, id)]

\* C1: in the enhanced server, a POST /api/chat answered 200 with id X has
\* left in the store one record with id X, whose question is the submitted
\* question trimmed and whose answer is the AI text of the response; a
\* stored record X keeps its question and answer in every step that is not
\* a successful DELETE of X; and a GET /api/chat/X that the store serves is
\* answered 200 with that record whenever X is stored.
C1_CreatedIsRetrievable ==
    [][ version = "enhanced" =>
        /\ (Responds("post") /\ out'.status = 200) =>
             /\ Len(Matching(store', out'.body.id)) = 1
             /\ ~HasId(store, out'.body.id)
             /\ Doc(store', out'.body.id).question = Trim(out'.arg.question.s)
             /\ Doc(store', out'.body.id).answer = out'.body.answer
             /\ out'.body.answer # <<>>
        /\ \A i \in DOMAIN store :
             \/ /\ HasId(store', store[i].id)
                /\ Doc(store', store[i].id).question = store[i].question
                /\ Doc(store', store[i].id).answer = store[i].answer
             \/ /\ Responds("delete")
                /\ out'.arg.id = store[i].id
                /\ out'.status = 200
        /\ (Responds("get") /\ HasId(store, out'.arg.id) /\ out'.status # 500) =>
             /\ out'.status = 200
             /\ out'.body = Select(Doc(store, out'.arg.id))
             /\ out'.body.id = out'.arg.id
      ]_vars

\* C1 witness: a GET answered 200 with the record of the question of 5000
\* letters between spaces, starred by a PUT in between, while a second
\* record is stored
C1_Witness ==
    /\ version = "enhanced"
    /\ out.kind = "get" /\ out.status = 200
    /\ out.body.question = <<Word("a", 5000)>>
    /\ out.body.isStarred
    /\ Len(store) = 2

\* What C2 calls an invalid question: missing or not a string, or a string
\* that is empty or longer than 5000 characters once trimmed
InvalidQuestion(q) ==
    \/ q.t # "string"
    \/ TLen(Trim(q.s)) = 0
    \/ TLen(Trim(q.s)) > 5000

\* C2: in the enhanced server a POST /api/chat with an invalid question is
\* answered 400 in the step that receives it, which leaves the store and
\* the requests in flight as they are; no request that has gone on to the
\* AI provider or to the store carries an invalid question.
C2_InvalidQuestionRejected ==
    [][ version = "enhanced" =>
        /\ \A s \in Slots :
             reqs'[s].kind = "post" => ~InvalidQuestion(reqs'[s].arg.question)
        /\ (Responds("post") /\ InvalidQuestion(out'.arg.question)) =>
             /\ out'.status = 400
             /\ store' = store
             /\ reqs' = reqs
             /\ \A s \in Slots : reqs[s].arg # out'.arg
      ]_vars

\* C2 witness: the question of a space and 5001 letters has been answered
\* 400 while a record is stored
C2_Witness ==
    /\ version = "enhanced"
    /\ out.kind = "post" /\ out.status = 400
    /\ out.arg.question = Str(<<Spaces(1), Word("a", 5001)>>)
    /\ Len(store) = 1

\* C3: a DELETE /api/chat/:id that the store serves, for an id that no
\* stored exchange has or for the id that the DELETE just before it has
\* removed, is answered 404 and leaves the store as it is, in both servers.
C3_DeleteAbsentIs404 ==
    [][ ( /\ Responds("delete")
          /\ out'.status # 500
          /\ \/ ~HasId(store, out'.arg.id)
             \/ justDeleted = out'.arg.id )
        => (out'.status = 404 /\ store' = store)
      ]_vars

\* The step in which a list or a search in slot s gets its page from the
\* store
Finds(s) == reqs[s].pc = "idle" /\ reqs'[s].pc = "count"

\* C4: in the enhanced server a DELETE /api/chat/X that the store serves,
\* for a stored X, is answered 200 and leaves the store as it was without
\* the exchange X, every other exchange as it was and in its place; from
\* then on X is not stored, and while X is not stored a GET /api/chat/X
\* that the store serves is answered 404 and no page that a list or a
\* search gets and no export holds an exchange with id X.
C4_DeleteRemovesExactlyOne ==
    [][ version = "enhanced" =>
        /\ (Responds("delete") /\ HasId(store, out'.arg.id)
                               /\ out'.status # 500) =>
             /\ out'.status = 200
             /\ out'.body.id = out'.arg.id
             /\ store' = SelectSeq(store, LAMBDA d : d.id # out'.arg.id)
             /\ Len(store') = Len(store) - 1
             /\ ~HasId(store', out'.arg.id)
        /\ (Responds("get") /\ ~HasId(store, out'.arg.id)
                            /\ out'.status # 500) =>
             out'.status = 404
        /\ \A s \in Slots : Finds(s) =>
             \A k \in DOMAIN reqs'[s].found : HasId(store, reqs'[s].found[k].id)
        /\ (Responds("export") /\ out'.status = 200) =>
             IF out'.arg.format = "csv"
             THEN \A k \in DOMAIN out'.body.csv : HasId(store, out'.body.csv[k].id)
             ELSE \A k \in DOMAIN out'.body.json : HasId(store, out'.body.json[k].id)
      ]_vars

\* C4 witness: a DELETE has been answered 200 and the other stored
\* exchange, starred and rated, is the store
C4_Witness ==
    /\ version = "enhanced"
    /\ out.kind = "delete" /\ out.status = 200
    /\ justDeleted = out.arg.id
    /\ Len(store) = 1
    /\ store[1].id # out.arg.id
    /\ store[1].rating = <<5>>

Kept(st, query) ==
    { i \in DOMAIN st :
        /\ query.starred = "true" => st[i].isStarred
        /\ query.minRating.t = "number" =>
             (st[i].rating # <<>> /\ st[i].rating[1] >= query.minRating.n) }

\* Whether exchange i comes before exchange j in the order of the query
Before(st, query, i, j) ==
    LET sortBy == IF query.sortBy = "" THEN "timestamp" ELSE query.sortBy
    IN IF query.sortOrder = "asc"
       THEN SortKey(st[i], sortBy) < SortKey(st[j], sortBy)
       ELSE SortKey(st[i], sortBy) > SortKey(st[j], sortBy)

\* The list is the page p of l records of the kept exchanges in the order
\* of the query: record k is a kept exchange whose place (p-1)*l + k - 1
\* has as many exchanges before it as the order demands
IsPage(list, st, query, p, l) ==
    LET kept == Kept(st, query)
        total == Cardinality(kept)
        rest == total - (p - 1) * l
    IN /\ Len(list) = (IF rest < 0 THEN 0 ELSE IF rest < l THEN rest ELSE l)
       /\ \A k \in DOMAIN list :
            \E i \in kept :
              /\ list[k] = Select(st[i])
              /\ Cardinality({j \in kept : Before(st, query, j, i)})
                   <= (p - 1) * l + k - 1
              /\ Cardinality({j \in kept : ~Before(st, query, i, j)})
                   > (p - 1) * l + k - 1
       /\ \A k1, k2 \in DOMAIN list : list[k1] = list[k2] => k1 = k2

\* C6: in the enhanced server a GET /api/chat with page p >= 1 and limit l
\* in 1..50 that is answered 200 returns the page p of l records of the
\* kept exchanges sorted by the sortBy field in the requested order, with
\* total the number of kept exchanges, pages the least n with n*l >= total,
\* hasNext iff p < pages and hasPrev iff p > 1.
C6_ListPage ==
    [][ ( /\ version = "enhanced"
          /\ Responds("list") /\ out'.status = 200
          /\ out'.arg.page.t = "number" /\ out'.arg.page.n >= 1
          /\ out'.arg.limit.t = "number"
          /\ out'.arg.limit.n >= 1 /\ out'.arg.limit.n <= 50 )
        => LET p == out'.arg.page.n
               l == out'.arg.limit.n
               total == Cardinality(Kept(store, out'.arg))
               pages == CHOOSE n \in 0..total :
                          n * l >= total /\ (n = 0 \/ (n - 1) * l < total)
           IN /\ IsPage(out'.body.responses, store, out'.arg, p, l)
              /\ out'.body.pagination.total = total
              /\ out'.body.pagination.pages = pages
              /\ out'.body.pagination.hasNext = (p < pages)
              /\ out'.body.pagination.hasPrev = (p > 1)
      ]_vars

\* C7: a list of either server and a search that are answered 200 return
\* at most 50 records, whatever the limit of the query.
C7_PageSizeCapped ==
    [][ /\ (Responds("list") /\ out'.status = 200) =>
             Len(out'.body.responses) <= 50
        /\ (Responds("search") /\ out'.status = 200) =>
             Len(out'.body.results) <= 50
      ]_vars

\* C8: no two stored exchanges have the same id, in both servers.
C8_UniqueIds ==
    \A i, j \in DOMAIN store : store[i].id = store[j].id => i = j

C10_NonEmptyTexts ==
    [][ /\ \A i \in DOMAIN store' :
             TLen(store'[i].question) > 0 /\ TLen(store'[i].answer) > 0
        /\ \A s \in Slots :
             ( /\ reqs[s].pc = "save"
               /\ reqs[s].doc[1].answer = <<>>
               /\ reqs'[s].pc = "idle" )
             => (store' = store /\ out'.kind = "post" /\ out'.status # 200)
      ]_vars

\* C10 witness: the enhanced server has answered 400 with the message of
\* the schema validation to a POST with a valid question (the AI text was
\* empty), and the store holds the one exchange it held before
C10_Witness ==
    /\ version = "enhanced"
    /\ out.kind = "post" /\ out.status = 400
    /\ ~InvalidQuestion(out.arg.question)
    /\ out.body.details = RequiredError.message
    /\ Len(store) = 1

\* C11: the store grows only in the step of a POST /api/chat whose AI call
\* has returned a text (the request is at its save), by the exchange built
\* from that text, and that step sends the 200; a POST answered 200 is
\* answered in such a step; a POST answered otherwise leaves the store as
\* it is, and the enhanced server answers it with a status of 400 or more.
C11_PostOrder ==
    [][ /\ Len(store') > Len(store) =>
             /\ Responds("post") /\ out'.status = 200
             /\ \E s \in Slots :
                  /\ reqs[s].kind = "post" /\ reqs[s].pc = "save"
                  /\ reqs'[s] = Idle
                  /\ reqs[s].arg = out'.arg
                  /\ store' = Append(store, reqs[s].doc[1])
                  /\ out'.body.answer = reqs[s].doc[1].answer
        /\ (Responds("post") /\ out'.status = 200) =>
             Len(store') = Len(store) + 1
        /\ (Responds("post") /\ out'.status # 200) =>
             /\ store' = store
             /\ version = "enhanced" => out'.status >= 400
      ]_vars

\* C11 witness: the enhanced server has answered 500 to a POST whose save
\* was refused for its id, and the store holds the exchange of that id
C11_Witness ==
    /\ version = "enhanced"
    /\ out.kind = "post" /\ out.status = 500
    /\ out.body.details = DuplicateKeyError.message
    /\ Len(store) = 1

\* The errors a POST /api/chat may end with, and the one whose message the
\* response carries in its details
PostErrors ==
    AiErrors \cup StoreErrors
      \cup {QuestionError, RequiredError, DuplicateKeyError, PreferencesTypeError}

ThrownBy(body) == CHOOSE e \in PostErrors : e.message = body.details

\* The status C12 gives to a failed POST by its cause
StatusByCause(question, e) ==
    IF InvalidQuestion(question) THEN 400
    ELSE IF e.code = "RESOURCE_EXHAUSTED" \/ "quota" \in e.has THEN 429
    ELSE IF e.code = "ENOTFOUND" \/ e.code = "ECONNREFUSED" THEN 503
    ELSE 500

\* C12: in the enhanced server a POST /api/chat that fails is answered 400
\* when its question failed validation, 429 when the error has the code
\* RESOURCE_EXHAUSTED or a message mentioning quota, 503 when the error has
\* the code ENOTFOUND or ECONNREFUSED, and 500 for every other failure.
C12_StatusByCause ==
    [][ ( /\ version = "enhanced"
          /\ Responds("post") /\ out'.status # 200 )
        => out'.status = StatusByCause(out'.arg.question, ThrownBy(out'.body))
      ]_vars

\* C13: every response of the enhanced server with a status of 400 or more
\* is a JSON object with an error field and a code field, whether a route
\* handler, apiLimiter, the 404 fallback or the error middleware sends it.
C13_ErrorEnvelope ==
    [][ ( /\ version = "enhanced"
          /\ out = NoOut /\ out' # NoOut
          /\ out'.status >= 400 )
        => {"error", "code"} \subseteq DOMAIN out'.body
      ]_vars

\* C19: a GET /api/health is answered 200 whatever the number of requests
\* the client has made in the window, while a request to another path
\* under /api/, made after more than 100 requests in the window, is
\* answered 429.
C19_HealthNeverLimited ==
    [][ ( /\ out = NoOut /\ out' # NoOut
          /\ out'.kind \in {"gate", "next"}
          /\ ~out'.arg.malformed )
        => /\ out'.arg.url = HealthUrl => out'.status = 200
           /\ (hits > 100 /\ Mounted(out'.arg.url) /\ out'.arg.url # HealthUrl)
                => out'.status = 429
      ]_vars

\* C18: GET /api/analytics answers, for a store that is not empty, a
\* summary whose totalResponses is the number of stored exchanges, whose
\* starredCount is the number of starred exchanges and whose ratedCount is
\* the number of exchanges that have a rating; recentActivity is the at
\* most 5 newest exchanges and topRated the at most 5 highest rated of
\* those that have a rating; for an empty store the summary is empty.
C18_Analytics ==
    (out.kind = "analytics" /\ out.status = 200) =>
      LET rated == SelectSeq(store, LAMBDA d : d.rating # <<>>)
          recent == out.body.recentActivity
          top == out.body.topRated
          least(n, m) == IF n < m THEN n ELSE m
      IN /\ store = <<>> <=> out.body.summary = <<>>
         /\ store # <<>> =>
              /\ out.body.summary[1].totalResponses = Len(store)
              /\ out.body.summary[1].starredCount =
                   Cardinality({i \in DOMAIN store : store[i].isStarred})
              /\ out.body.summary[1].ratedCount = Len(rated)
         /\ Len(recent) = least(5, Len(store))
         /\ \A n \in DOMAIN recent :
              /\ \E i \in DOMAIN store :
                   /\ recent[n].question = store[i].question
                   /\ recent[n].timestamp = store[i].timestamp
              /\ n > 1 => recent[n - 1].timestamp >= recent[n].timestamp
         /\ \A i \in DOMAIN store :
              \/ Len(recent) < 5
              \/ store[i].timestamp <= recent[Len(recent)].timestamp
              \/ \E n \in DOMAIN recent : recent[n].timestamp = store[i].timestamp
         /\ Len(top) = least(5, Len(rated))
         /\ \A n \in DOMAIN top :
              /\ \E i \in DOMAIN rated :
                   /\ top[n].question = rated[i].question
                   /\ top[n].rating = rated[i].rating
              /\ n > 1 => top[n - 1].rating[1] >= top[n].rating[1]
         /\ \A i \in DOMAIN rated :
              Len(top) < 5 \/ rated[i].rating[1] <= top[1].rating[1]

\* C15 as stated: no request of the enhanced server ever has more than
\* one external call outstanding.
C15_NoFanOut ==
    version = "enhanced" =>
      \A s \in Slots : Cardinality(Outstanding(reqs[s])) <= 1

\* C15: every request handler of the enhanced server except GET
\* /api/analytics has at most one external call outstanding at any point,
\* and a step of one request changes nothing that is kept in the process
\* for another request.
C15_OneCallAtATime ==
    [][ version = "enhanced" =>
          /\ \A s \in Slots :
               reqs'[s].kind # "analytics"
                 => Cardinality(Outstanding(reqs'[s])) <= 1
          /\ \A s, t \in Slots :
               s # t => reqs'[s] = reqs[s] \/ reqs'[t] = reqs[t]
          /\ hits' = hits
      ]_vars

C15_Witness ==
    /\ reqs[1].kind = "post" /\ Outstanding(reqs[1]) = {"ai"}
    /\ reqs[2].kind = "list" /\ Outstanding(reqs[2]) = {"count"}

\* The store with the user agent and the address of every exchange
\* replaced by those of another client
Twin(st) ==
    [i \in DOMAIN st |->
       [st[i] EXCEPT !.metadata =
          IF @ = <<>> THEN <<>>
          ELSE << [@[1] EXCEPT
                     !.userAgent = IF @ = "curl" THEN "Mozilla" ELSE "curl",
                     !.ipAddress = IF @ = "10.0.0.2" THEN "10.0.0.1"
                                   ELSE "10.0.0.2"] >>]]

Shown(docs) ==
    \A n \in DOMAIN docs :
      \/ docs[n].metadata = <<>>
      \/ DOMAIN docs[n].metadata[1] \cap {"userAgent", "ipAddress"} = {}

\* C14: no list, search or analytics response of the enhanced server
\* carries metadata.userAgent or metadata.ipAddress, and each of them is a
\* response the same request may get from the store that differs in those
\* two fields only.
C14_MetadataHidden ==
    (version = "enhanced" /\ out.status = 200) =>
      /\ out.kind = "list" =>
           LET p == ListParams(out.arg)
           IN /\ Shown(out.body.responses)
              /\ \E docs \in Sorted(Find(Twin(store), p.filter),
                                    p.sortBy, p.sortOrder) :
                   out.body.responses = SelectAll(SkipLimit(docs, p.skip, p.limit))
      /\ out.kind = "search" =>
           LET p == SearchParams(out.arg)
           IN /\ Shown(out.body.results)
              /\ \E docs \in SortedByScore(TextFind(Twin(store), out.arg.q.s),
                                           out.arg.q.s) :
                   out.body.results =
                     SelectAll(SkipLimit(docs, p.skip.n, p.limit.n))
      /\ out.kind = "analytics" =>
           /\ out.body.summary = Summary(Twin(store))
           /\ out.body.recentActivity \in RecentActivity(Twin(store))
           /\ out.body.topRated \in TopRated(Twin(store))
           /\ \A n \in DOMAIN out.body.recentActivity :
                "metadata" \notin DOMAIN out.body.recentActivity[n]
           /\ \A n \in DOMAIN out.body.topRated :
                "metadata" \notin DOMAIN out.body.topRated[n]

\* C16: a connect attempt that fails sets exactly one timer of 5 seconds
\* for the next attempt, whatever the number of failures before it; a
\* disconnected event starts an attempt at once; and if the database stays
\* reachable from some moment on, the connection ends up connected.
C16_Reconnects ==
    /\ [][ /\ db'.failures > db.failures
                => db'.timers = Append(db.timers, ReconnectDelay)
           /\ (db.state = "connected" /\ db'.state = "disconnected")
                => db'.attempts = db.attempts + 1
         ]_vars
    /\ <>[](db.reachable) => <>[](db.state = "connected")

C16_Witness ==
    /\ db.outages > 1
    /\ db.state = "connected"
    /\ db.reachable

\* C20: after a signal the HTTP server no longer listens and takes no new
\* request; the database connection starts closing only once the HTTP
\* server has closed, so that no request is in flight then; and the
\* process exits with code 0 only when the database connection has
\* closed, also when more signals arrive during the shutdown.
C20_ShutdownOrder ==
    [][ /\ proc'.signals > 0 => proc'.http # "listening"
        /\ proc.signals > 0 => proc'.inflight <= proc.inflight
        /\ proc'.mongo # "open" => proc'.http = "closed" /\ proc'.inflight = 0
        /\ proc'.exit = <<0>> => proc'.mongo = "closed"
      ]_vars

C20_Witness ==
    /\ proc.exit = <<0>>
    /\ proc.signals > 1

\* C17: in both client versions, the DELETE that the client sends for a
\* displayed exchange names an id the server knows (it is not answered
\* 404) and removes the exchange from the store; on 200 the client takes
\* exactly that exchange off the displayed list; on an error the
\* displayed list stays as it is and an error message is shown.
C17_ClientDelete ==
    [][ /\ Responds("delete") =>
             /\ out'.status # 404
             /\ out'.status = 200 =>
                  /\ Len(store') = Len(store) - 1
                  /\ ~HasId(store', out'.arg.id)
        /\ (out.kind = "delete" /\ out' = NoOut) =>
             IF out.status = 200
             THEN /\ Len(ui'.responses) = Len(ui.responses) - 1
                  /\ ui'.responses =
                       SelectSeq(ui.responses, LAMBDA r : r.id # out.arg.id)
             ELSE /\ ui'.responses = ui.responses
                  /\ ui'.error # <<>>
      ]_vars

\* C22: in the enhanced server a POST /api/chat is answered 400 with the
\* code VALIDATION_ERROR only if its question failed validation; a request
\* that has gone on to the AI provider or to the store is never answered
\* 400.
C22_Only400ForQuestion ==
    [][ ( /\ version = "enhanced"
          /\ Responds("post")
          /\ out'.status = 400 )
        => /\ out'.body.code = "VALIDATION_ERROR"
           /\ InvalidQuestion(out'.arg.question)
           /\ \A s \in Slots : reqs'[s] = reqs[s]
      ]_vars

\* C26: in both servers every POST /api/chat gets a response, whatever its
\* body and whatever the AI call and the save do: a request that waits
\* for the AI call or for the save is answered in the end, the step that
\* takes a request in either answers it or leaves it waiting, no request
\* is left with no response, and the step that answers a waiting request
\* ends it, so that it is answered once.
C26_OneResponse ==
    /\ \A s \in Slots : (reqs[s].kind = "post") ~> (reqs[s].kind = "none")
    /\ [](out.kind = "post" => out.status \in {200, 400, 429, 500, 503})
    /\ [][ Responds("post") =>
             \/ reqs' = reqs
             \/ \E s \in Slots :
                  /\ reqs[s].kind = "post" /\ reqs[s].arg = out'.arg
                  /\ reqs'[s] = Idle
                  /\ \A t \in Slots \ {s} : reqs'[t] = reqs[t]
         ]_vars

\* C25: the page and the total of a GET /api/chat response with a positive
\* page size fit one state of the store, also with creates and deletes in
\* between the two queries: the page holds
\* no more records than total, it holds as many as total leaves for it
\* after the records skipped, and hasNext tells whether matching records
\* lie beyond it.
C25_PageFitsTotal ==
    [][ ( /\ version = "enhanced"
          /\ Responds("list") /\ out'.status = 200
          /\ ListParams(out'.arg).limit > 0 )
        => LET p == ListParams(out'.arg)
               total == out'.body.pagination.total
               n == Len(out'.body.responses)
               left == IF total > p.skip THEN total - p.skip ELSE 0
           IN /\ n <= total
              /\ n = Min(p.limit, left)
              /\ out'.body.pagination.hasNext <=> (total > p.skip + n)
      ]_vars

\* C23: in both servers the connect attempts under way and the retry
\* timers pending are never more than one in all, whatever the failures
\* and the disconnected and error events.
C23_OneAttempt == db.attempts + Len(db.timers) <= 1


\* C21: in the browser client isLoading is true exactly while some chat
\* request sent by handleAsk waits for its response; an ask with a blank
\* input sends nothing, sets the error message and leaves isLoading and
\* the list on display as they were.
C21_LoadingWhileAsking ==
    /\ [](ui.client # "none" => (ui.isLoading <=> ui.asking # {}))
    /\ [][ (ui'.error = <<"Please enter a question.">> /\ ui'.error # ui.error)
             => /\ ui'.isLoading = ui.isLoading
                /\ ui'.responses = ui.responses
                /\ ui'.asking = ui.asking
                /\ reqs' = reqs ]_vars


\* C24: in the browser client every chat request answered with 200 adds
\* exactly one exchange, the answered one, to the list on display and
\* removes none, and a delete answered with 200 removes the deleted
\* exchange and no other, also when two asks overlap or an ask overlaps
\* a delete.
C24_EveryExchangeShown ==
    [][ (ui.client # "none" /\ ~Quiet /\ out' = NoOut /\ out.status = 200)
          => LET n == Len(ui.responses)
             IN /\ out.kind = "post" =>
                     /\ Len(ui'.responses) = n + 1
                     /\ SubSeq(ui'.responses, 1, n) = ui.responses
                     /\ Str(ui'.responses[n + 1].question) = out.arg.question
                     /\ ui'.responses[n + 1].answer = out.body.answer
                /\ out.kind = "delete" =>
                     ui'.responses =
                       SelectSeq(ui.responses,
                                 LAMBDA r : r.id # ui.deleting[1].id) ]_vars

====
